---- MODULE Spec2Model ----
(***************************************************************************)
(* A state-machine model of Prototype/Backend/RAG.py: the generator        *)
(* generate_stream(payload) and its nested generator                       *)
(* stream_model_response().  The external collaborators (the chat backend  *)
(* used for the self-query and for generation, the two FAISS indices and   *)
(* the FlashRank ranker) are the environment: every call to one of them    *)
(* returns a value drawn from a small set or raises.                       *)
(*                                                                         *)
(* Text is a sequence of tokens, so that concatenation (+, f-strings,      *)
(* join) is \o and two texts are equal only if they were built the same.   *)
(***************************************************************************)
EXTENDS Naturals, Sequences, FiniteSets

\* ------------------------------------------------------------------ bounds
MaxTurns == 2       \* longest input conversation
MaxReplyLen == 4    \* longest classifier reply, in tokens
MaxCoarse == 3      \* most documents the primary index returns
MaxLines == 2       \* most lines the generation transport delivers

\* ----------------------------------------------------------------- values
\* Python's None where a text was expected.
NoneValue == <<"None">>

\* An element of a `messages` list: a dict with role and content, or
\* something that is not a dict (a str, a number, None).
Turn(role, content) == [dict |-> TRUE, role |-> role, content |-> content]
NonDict == [dict |-> FALSE, role |-> "", content |-> <<>>]

UserTurn == Turn("user", <<"q">>)
AssistantTurn == Turn("assistant", <<"a">>)
InputElements == {UserTurn, AssistantTurn, NonDict}

SeqsUpTo(S, n) == UNION {[1..k -> S] : k \in 0..n}

\* payload['messages']: absent, a value that is not a list, or a list.
MissingMessages == [kind |-> "missing", items |-> <<>>]
NonListMessages == [kind |-> "nonlist", items |-> <<>>]
ListMessages(l) == [kind |-> "list", items |-> l]

\* payload['options'] is a dict (absent counts as the default {}) or not.
Payloads ==
    {[options |-> o, messages |-> m] :
        o \in {"dict", "nondict"},
        m \in {MissingMessages, NonListMessages}
              \cup {ListMessages(l) : l \in SeqsUpTo(InputElements, MaxTurns)}}

\* An exception: its type and str(e).
Exc(type, msg) == [type |-> type, msg |-> msg]
NoExc == Exc("", <<>>)

Last(s) == s[Len(s)]
Front(s) == SubSeq(s, 1, Len(s) - 1)
Min(a, b) == IF a < b THEN a ELSE b

\* ------------------------------------------------ the classifier's verdict
\* The tokens a classifier reply is made of.  "Database required:" in two
\* casings, a whitespace character, the two verdict words in casings other
\* than the pattern's, and a word that is neither.
ReplyTokens ==
    {"Database required:", "DATABASE REQUIRED:", " ", "Yes", "NO", "maybe"}
AllReplies == SeqsUpTo(ReplyTokens, MaxReplyLen)

\* str.lower() on a token (what re.IGNORECASE compares, and line 208).
Lower(t) ==
    CASE t = "Database required:" -> "database required:"
      [] t = "DATABASE REQUIRED:" -> "database required:"
      [] t = "Yes" -> "yes"
      [] t = "NO" -> "no"
      [] OTHER -> t

IsSpace(t) == t = " "

\* str.strip(): leading and trailing whitespace removed.
RECURSIVE LStrip(_)
LStrip(s) == IF s # <<>> /\ IsSpace(s[1]) THEN LStrip(Tail(s)) ELSE s
RECURSIVE RStrip(_)
RStrip(s) == IF s # <<>> /\ IsSpace(Last(s)) THEN RStrip(Front(s)) ELSE s
Strip(s) == RStrip(LStrip(s))

\* re.search(r'Database required:\s*(Yes|No)', reply, re.IGNORECASE), as the
\* backtracking matcher runs it.  NoMatch stands for None; a match is
\* represented by group(1), the text the alternation captured.
NoMatch == ""

\* The alternation (Yes|No) tried at position p.
AltAt(s, p) ==
    IF p <= Len(s) /\ Lower(s[p]) \in {"yes", "no"} THEN s[p] ELSE NoMatch

\* How many whitespace tokens \s* can take from position p on.
RECURSIVE SpaceRun(_, _)
SpaceRun(s, p) ==
    IF p <= Len(s) /\ IsSpace(s[p]) THEN 1 + SpaceRun(s, p + 1) ELSE 0

\* \s* is greedy: it takes k tokens, and gives them back one at a time while
\* the alternation fails after it.
RECURSIVE AfterSpaces(_, _, _)
AfterSpaces(s, p, k) ==
    IF AltAt(s, p + k) # NoMatch THEN AltAt(s, p + k)
    ELSE IF k = 0 THEN NoMatch
    ELSE AfterSpaces(s, p, k - 1)

\* A match attempt anchored at position i.
MatchAt(s, i) ==
    IF Lower(s[i]) = "database required:"
    THEN AfterSpaces(s, i + 1, SpaceRun(s, i + 1))
    ELSE NoMatch

\* search: the leftmost position at which an attempt succeeds.
RECURSIVE SearchFrom(_, _)
SearchFrom(s, i) ==
    IF i > Len(s) THEN NoMatch
    ELSE IF MatchAt(s, i) # NoMatch THEN MatchAt(s, i)
    ELSE SearchFrom(s, i + 1)

ReSearch(s) == SearchFrom(s, 1)

\* The comparison of line 208 without .lower().
GroupIsYesCaseSensitive(group) == group = "yes"

\* match.group(1).strip().lower() == 'yes'   (line 208)
GroupIsYes(group) == Lower(group) = "yes"

\* ----------------------------------------------- the classifier's response
\* What requests.post(...) for the self-query produces: a failure of the
\* call, of raise_for_status() or of .json(), or a decoded envelope.
Envelope(hm, m, hms, ms) ==
    [status |-> "ok", has_message |-> hm, message |-> m,
     has_messages |-> hms, messages |-> ms]
FailedResponse(s) ==
    [status |-> s, has_message |-> FALSE, message |-> NonDict,
     has_messages |-> FALSE, messages |-> NonListMessages]
MessageEnvelope(m) == Envelope(TRUE, m, FALSE, NonListMessages)
MessagesEnvelope(ms) == Envelope(FALSE, NonDict, TRUE, ms)
NeitherEnvelope == Envelope(FALSE, NonDict, FALSE, NonListMessages)

\* Replies used where the reply text stays in the conversation.
ReplySamples ==
    {<<"Database required:", " ", "Yes">>,
     <<"DATABASE REQUIRED:", "NO">>,
     <<"maybe">>}

\* No response is held (before line 180).
NoResponse == FailedResponse("none")

ClassifierResponses ==
    {FailedResponse(s) : s \in {"connection_error", "http_error", "invalid_json"}}
    \cup {NeitherEnvelope, MessageEnvelope(NonDict)}
    \cup {MessageEnvelope(Turn("assistant", c)) : c \in AllReplies \cup {NoneValue}}
    \cup {MessagesEnvelope(ms) :
            ms \in {NonListMessages, ListMessages(<<>>), ListMessages(<<NonDict>>),
                    ListMessages(<<Turn("assistant", NoneValue)>>)}}
    \cup {MessagesEnvelope(ListMessages(<<Turn("assistant", c)>>)) : c \in ReplySamples}

\* Lines 180-203: the call, raise_for_status(), .json() and the sniffing of
\* the envelope.  The result says whether an exception was raised, the
\* stripped reply if not, and whether line 194 ran: it assigns the
\* response's list to the local name `messages`, which until then named the
\* caller's conversation.
Parsed(reply) ==
    [raised |-> FALSE, exc |-> NoExc, reply |-> reply,
     rebinds |-> FALSE, list |-> <<>>]
ParsedRebound(reply, l) ==
    [raised |-> FALSE, exc |-> NoExc, reply |-> reply,
     rebinds |-> TRUE, list |-> l]
Failed(e) ==
    [raised |-> TRUE, exc |-> e, reply |-> <<>>, rebinds |-> FALSE, list |-> <<>>]
FailedRebound(e, l) ==
    [raised |-> TRUE, exc |-> e, reply |-> <<>>, rebinds |-> TRUE, list |-> l]

\* dict.get('content', '').strip() on an element of the envelope.
ContentOf(m, rebound, l) ==
    IF ~m.dict
    THEN IF rebound
         THEN FailedRebound(Exc("AttributeError", <<"object has no attribute 'get'">>), l)
         ELSE Failed(Exc("ValueError", <<"Invalid message format in response">>))
    ELSE IF m.content = NoneValue
    THEN IF rebound
         THEN FailedRebound(Exc("AttributeError", <<"'NoneType' object has no attribute 'strip'">>), l)
         ELSE Failed(Exc("AttributeError", <<"'NoneType' object has no attribute 'strip'">>))
    ELSE IF rebound THEN ParsedRebound(Strip(m.content), l)
    ELSE Parsed(Strip(m.content))

\* The envelope handling with every failure swallowed into an empty reply.
ParseEnvelopeSwallowingFailures(resp) ==
    IF resp.status = "ok" /\ resp.has_message /\ resp.message.dict
       /\ resp.message.content # NoneValue
    THEN Parsed(Strip(resp.message.content))
    ELSE Parsed(<<>>)

ParseEnvelope(resp) ==
    IF resp.status = "connection_error"
    THEN Failed(Exc("ConnectionError", <<"connection failed">>))
    ELSE IF resp.status = "http_error"
    THEN Failed(Exc("HTTPError", <<"500 Server Error">>))
    ELSE IF resp.status = "invalid_json"
    THEN Failed(Exc("JSONDecodeError", <<"Expecting value">>))
    ELSE IF resp.has_message
    THEN ContentOf(resp.message, FALSE, <<>>)
    ELSE IF resp.has_messages
    THEN IF resp.messages.kind = "list" /\ resp.messages.items # <<>>
         THEN ContentOf(Last(resp.messages.items), TRUE, resp.messages.items)
         ELSE FailedRebound(Exc("ValueError", <<"Invalid messages format in response">>),
                            resp.messages.items)
    ELSE Failed(Exc("ValueError", <<"No message or messages key found in response">>))

\* Lines 206-212: the routing decision from the reply.
DatabaseRequired(reply) ==
    IF ReSearch(reply) # NoMatch THEN GroupIsYes(ReSearch(reply)) ELSE FALSE

\* ------------------------------------------------------------- retrieval
\* A document of the primary index and an entry of the FAQ index.
Doc(section, text) == [page_content |-> text, section_name |-> section, ids |-> ""]
CoarseDocs == {Doc("A", <<"tA">>), Doc("B", <<"tB">>)}
k_full == 10
k_qa == 10
\* What the primary index may return for k=k_full.
CoarseResults == SeqsUpTo(CoarseDocs, Min(k_full, MaxCoarse))

Faq(id, section, text) == [page_content |-> text, section_name |-> section, ids |-> id]
FaqCorpus ==
    {Faq("a1", "A", <<"fa1">>), Faq("a2", "A", <<"fa2">>), Faq("b1", "B", <<"fb1">>)}

\* What the FAQ index may return under filter={'section_name': s}: entries
\* of that section, none twice, in any order.
FaqResults(s) ==
    LET inSection == {f \in FaqCorpus : f.section_name = s}
    IN {r \in SeqsUpTo(inSection, Min(k_qa, Cardinality(inSection))) :
            \A i, j \in 1..Len(r) : i # j => r[i] # r[j]}

\* The top sections with a repeated section name taken once.
TopSectionsDistinct(full) ==
    IF Len(full) >= 2 /\ full[1].section_name = full[2].section_name
    THEN <<full[1]>>
    ELSE SubSeq(full, 1, Min(2, Len(full)))

\* Line 238 without the cut: every coarse result becomes a top section.
TopSectionsUncut(full) == full

\* full_hr_candidates[:2] and the list comprehension of line 239.
TopSections(full) == SubSeq(full, 1, Min(2, Len(full)))
SectionNames(top) == [i \in 1..Len(top) |-> top[i].section_name]

\* Lines 260-264: a passage of the re-rank request.
Passage(doc) ==
    [id |-> doc.ids, text |-> doc.page_content,
     meta |-> [section_name |-> doc.section_name, ids |-> doc.ids]]
Passages(cands) == [i \in 1..Len(cands) |-> Passage(cands[i])]

Reverse(s) == [i \in 1..Len(s) |-> s[Len(s) + 1 - i]]
\* The ranker returns the passages in the order of its scores.
RerankResults(passages) == {passages, Reverse(passages)}

\* reranked_qa_results[:3]
TopFaqs(ranked) == SubSeq(ranked, 1, Min(3, Len(ranked)))

\* sep.join(texts)
RECURSIVE Join(_, _)
Join(sep, texts) ==
    IF texts = <<>> THEN <<>>
    ELSE IF Len(texts) = 1 THEN texts[1]
    ELSE texts[1] \o <<sep>> \o Join(sep, Tail(texts))

\* Lines 278 and 285.
ContextSections(top) == Join("\n\n", [i \in 1..Len(top) |-> top[i].page_content])
ContextFaqs(faqs) == Join("\n\n", [i \in 1..Len(faqs) |-> faqs[i].text])
Context(top) == <<"Sections:\n">> \o ContextSections(top) \o <<"\n">>

\* Lines 290-293: the system message and list.insert(-1, x), which puts x
\* before the last element (at index 0 of an empty list).
SystemTurn(ctx) ==
    Turn("system",
         <<"Using the provided context from the database for Tech Enerzal to answer the user query.\nContext=\"">>
         \o ctx \o <<"\"">>)
InsertBeforeLast(l, x) ==
    IF l = <<>> THEN <<x>> ELSE Front(l) \o <<x>> \o <<Last(l)>>

\* ------------------------------------------------------ generation stream
\* A line of response.iter_lines().
Line(kind, role, content) == [kind |-> kind, role |-> role, content |-> content]
StreamLines ==
    {Line("envelope", r, <<"Hi">>) : r \in {"assistant", "user", "system"}}
    \cup {Line("envelope", "assistant", NoneValue),
          Line("text", "", <<"not json">>),
          Line("empty", "", <<>>),
          Line("json_without_message", "", <<>>),
          Line("json_message_not_object", "", <<>>),
          Line("json_not_object", "", <<>>),
          Line("undecodable", "", <<>>)}

\* Lines 330-352 on one line: a chunk is yielded, nothing is, or an
\* exception leaves stream_model_response.
Yield(chunk) == [does |-> "yield", chunk |-> chunk, exc |-> NoExc]
Skip == [does |-> "skip", chunk |-> <<>>, exc |-> NoExc]
Throw(e) == [does |-> "raise", chunk |-> <<>>, exc |-> e]

\* The role filter of line 343 with 'user' left out.
RelayedAssistantOnly(role) == role = "assistant"

Relayed(role) == role \in {"assistant", "user"}

\* Lines 330-352 without the test of line 330: an empty line fails to
\* parse and is relayed as raw text.
ProcessLineWithoutEmptyTest(line) ==
    CASE line.kind = "empty" -> Yield(<<"\n">>)
      [] line.kind = "undecodable" ->
            Throw(Exc("UnicodeDecodeError", <<"'utf-8' codec can't decode byte">>))
      [] line.kind = "text" -> Yield(line.content \o <<"\n">>)
      [] line.kind = "json_not_object" ->
            Throw(Exc("AttributeError", <<"object has no attribute 'get'">>))
      [] line.kind = "json_message_not_object" ->
            Throw(Exc("AttributeError", <<"'NoneType' object has no attribute 'get'">>))
      [] line.kind = "json_without_message" -> Skip
      [] line.kind = "envelope" ->
            IF ~Relayed(line.role) THEN Skip
            ELSE IF line.content = NoneValue
            THEN Throw(Exc("TypeError", <<"unsupported operand type(s) for +">>))
            ELSE Yield(line.content \o <<"\n">>)

ProcessLine(line) ==
    CASE line.kind = "empty" -> Skip
      [] line.kind = "undecodable" ->
            Throw(Exc("UnicodeDecodeError", <<"'utf-8' codec can't decode byte">>))
      [] line.kind = "text" -> Yield(line.content \o <<"\n">>)
      [] line.kind = "json_not_object" ->
            Throw(Exc("AttributeError", <<"object has no attribute 'get'">>))
      [] line.kind = "json_message_not_object" ->
            Throw(Exc("AttributeError", <<"'NoneType' object has no attribute 'get'">>))
      [] line.kind = "json_without_message" -> Skip
      [] line.kind = "envelope" ->
            IF ~Relayed(line.role) THEN Skip
            ELSE IF line.content = NoneValue
            THEN Throw(Exc("TypeError", <<"unsupported operand type(s) for +">>))
            ELSE Yield(line.content \o <<"\n">>)

\* Line 363: json.dumps({"error": f"Error in generating response: {str(e)}"})
ErrorChunk(e) ==
    <<"{\"error\": \"", "Error in generating response: ">> \o e.msg \o <<"\"}">>

\* ------------------------------------------------------------------ state
VARIABLES
    pc,                  \* where generate_stream stands
    payload,             \* the argument, as it was passed
    payload_list,        \* the caller's list object payload['messages']
    response_list,       \* the list object self_query_data['messages']
    messages_ref,        \* the object the local name `messages` refers to
    user_message,        \* line 82
    chat_history,        \* line 85
    self_query_data,     \* line 182 (and the failures of lines 180-182)
    assistant_reply,     \* lines 189, 196
    match,               \* line 206
    database_required,   \* lines 208, 212
    full_hr_candidates,  \* line 233
    top_sections,        \* line 238
    section_names,       \* line 239
    qa_results,          \* line 248: the value of each pass of the loop
    qa_candidates,       \* lines 243, 253
    qa_passages,         \* line 260
    reranked_qa_results, \* line 268
    top_faqs,            \* line 272
    context_faqs,        \* line 280
    context,             \* line 285
    generation_request,  \* the conversation posted at line 326
    lines,               \* the lines iter_lines() has delivered
    transport,           \* the response object of line 326
    output,              \* the chunks yielded to the consumer
    calls,               \* the calls the collaborators have received
    exception            \* the exception that left generate_stream

classifyVars == <<self_query_data, assistant_reply, match, database_required>>
coarseVars == <<full_hr_candidates, top_sections, section_names>>
faqVars ==
    <<qa_results, qa_candidates, qa_passages, reranked_qa_results, top_faqs,
      context_faqs>>
heapVars == <<payload_list, response_list, messages_ref>>
inputVars == <<payload, user_message, chat_history>>
streamVars == <<generation_request, lines, transport>>

vars ==
    <<pc, payload, payload_list, response_list, messages_ref, user_message,
      chat_history, self_query_data, assistant_reply, match,
      database_required, full_hr_candidates, top_sections, section_names, qa_results,
      qa_candidates, qa_passages, reranked_qa_results, top_faqs,
      context_faqs, context, generation_request, lines, transport, output, calls,
      exception>>

\* A call received by a collaborator; `filter` is the section name of a
\* filtered FAQ query.
Call(to, filter) == [to |-> to, filter |-> filter]

\* The list the local name `messages` stands for.
Messages == IF messages_ref = "response" THEN response_list ELSE payload_list

NotSent == [sent |-> FALSE, messages |-> <<>>]

Init ==
    /\ pc = "init"
    /\ payload \in Payloads
    /\ payload_list = payload.messages.items
    /\ response_list = <<>>
    /\ messages_ref = "unbound"
    /\ user_message = <<>>
    /\ chat_history = <<>>
    /\ self_query_data = NoResponse
    /\ assistant_reply = <<>>
    /\ match = NoMatch
    /\ database_required = FALSE
    /\ full_hr_candidates = <<>>
    /\ top_sections = <<>>
    /\ section_names = <<>>
    /\ qa_results = <<>>
    /\ qa_candidates = <<>>
    /\ qa_passages = <<>>
    /\ reranked_qa_results = <<>>
    /\ top_faqs = <<>>
    /\ context_faqs = <<>>
    /\ context = <<>>
    /\ generation_request = NotSent
    /\ lines = <<>>
    /\ transport = "unopened"
    /\ output = <<>>
    /\ calls = <<>>
    /\ exception = NoExc

\* Lines 65-85 end in one of three ways before the try block is entered:
\* options.get fails on an `options` that is not a dict (line 70), the
\* validation of line 77 raises ValueError, or messages[-1].get fails on a
\* last element that is not a dict (line 82).
Preamble(p) ==
    IF p.options = "nondict"
    THEN Exc("AttributeError", <<"object has no attribute 'get'">>)
    ELSE IF p.messages.kind # "list" \/ p.messages.items = <<>>
    THEN Exc("ValueError", <<"Invalid messages format">>)
    ELSE IF ~Last(p.messages.items).dict
    THEN Exc("AttributeError", <<"object has no attribute 'get'">>)
    ELSE NoExc

\* A handler that reports the error in place of what was already yielded.
CaughtDiscardingOutput(e) ==
    /\ output' = <<ErrorChunk(e)>>
    /\ pc' = "done"

\* A handler that reports the error and goes on to the generation call.
CaughtThenGenerates(e) ==
    /\ output' = Append(output, ErrorChunk(e))
    /\ pc' = "generate"

\* Lines 361-363: the handler of the try block yields one chunk and the
\* generator returns.
Caught(e) ==
    /\ output' = Append(output, ErrorChunk(e))
    /\ pc' = "done"

\* The first next() on the generator: lines 65-85.
Start ==
    /\ pc = "init"
    /\ IF Preamble(payload) # NoExc
       THEN /\ pc' = "raised"
            /\ exception' = Preamble(payload)
            /\ UNCHANGED <<messages_ref, user_message, chat_history>>
       ELSE /\ pc' = "self_query"
            /\ messages_ref' = "payload"
            /\ user_message' = Last(payload_list).content
            /\ chat_history' = Front(payload_list)
            /\ UNCHANGED exception
    /\ UNCHANGED <<payload, payload_list, response_list, classifyVars, coarseVars,
                   faqVars, context, streamVars, output, calls>>

\* Lines 178-212: the self-query and the routing decision.
SelfQuery ==
    /\ pc = "self_query"
    /\ calls' = Append(calls, Call("classifier", ""))
    /\ \E resp \in ClassifierResponses :
         LET r == ParseEnvelope(resp) IN
         /\ self_query_data' = resp
         /\ IF r.rebinds
            THEN messages_ref' = "response" /\ response_list' = r.list
            ELSE UNCHANGED <<messages_ref, response_list>>
         /\ IF r.raised
            THEN /\ Caught(r.exc)
                 /\ UNCHANGED <<assistant_reply, match, database_required>>
            ELSE /\ pc' = "decide"
                 /\ assistant_reply' = r.reply
                 /\ match' = ReSearch(r.reply)
                 /\ database_required' = DatabaseRequired(r.reply)
                 /\ UNCHANGED output
    /\ UNCHANGED <<inputVars, payload_list, coarseVars, faqVars, context,
                   streamVars, exception>>

\* Lines 230-243: the search of the primary index, and the section names
\* of its first two results.  The response and the reply of the self-query
\* are not read after line 212 and are not tracked from here on.
CoarseSearch ==
    /\ pc = "decide"
    /\ database_required
    /\ calls' = Append(calls, Call("coarse", ""))
    /\ \/ /\ Caught(Exc("RuntimeError", <<"similarity_search failed">>))
          /\ UNCHANGED <<self_query_data, assistant_reply, coarseVars>>
       \/ \E full \in CoarseResults :
            /\ full_hr_candidates' = full
            /\ top_sections' = TopSections(full)
            /\ section_names' = SectionNames(TopSections(full))
            /\ self_query_data' = NoResponse
            /\ assistant_reply' = <<>>
            /\ pc' = "scoped"
            /\ UNCHANGED output
    /\ UNCHANGED <<inputVars, heapVars, match, database_required, faqVars,
                   context, streamVars, exception>>

\* Lines 244-255: one pass of the loop over section_names.
ScopedQuery ==
    /\ pc = "scoped"
    /\ Len(qa_results) < Len(section_names)
    /\ LET section_name == section_names[Len(qa_results) + 1] IN
       /\ calls' = Append(calls, Call("faq", section_name))
       /\ \/ /\ Caught(Exc("RuntimeError", <<"similarity_search failed">>))
             /\ UNCHANGED <<qa_results, qa_candidates>>
          \/ \E found \in FaqResults(section_name) :
               /\ qa_results' = Append(qa_results, found)
               /\ qa_candidates' = qa_candidates \o found
               /\ UNCHANGED <<pc, output>>
    /\ UNCHANGED <<inputVars, heapVars, classifyVars, coarseVars, qa_passages,
                   reranked_qa_results, top_faqs, context_faqs, context,
                   streamVars, exception>>

\* Lines 257-273: the loop is over; the passages are built and the ranker
\* is called with them.
Rerank ==
    /\ pc = "scoped"
    /\ Len(qa_results) = Len(section_names)
    /\ qa_passages' = Passages(qa_candidates)
    /\ calls' = Append(calls, Call("rerank", ""))
    /\ \/ /\ Caught(Exc("RuntimeError", <<"rerank failed">>))
          /\ UNCHANGED <<reranked_qa_results, top_faqs>>
       \/ \E ranked \in RerankResults(Passages(qa_candidates)) :
            /\ reranked_qa_results' = ranked
            /\ top_faqs' = TopFaqs(ranked)
            /\ pc' = "assemble"
            /\ UNCHANGED output
    /\ UNCHANGED <<inputVars, heapVars, classifyVars, coarseVars, qa_results,
                   qa_candidates, context_faqs, context, streamVars, exception>>

\* Lines 275-294 with the context of the commented-out line 283, which
\* renders the FAQs after the sections.
AssembleWithFaqs ==
    LET with_faqs == <<"Sections:\n">> \o ContextSections(top_sections)
                        \o <<"\n\nFAQs:\n">> \o ContextFaqs(top_faqs) IN
    /\ pc = "assemble"
    /\ context_faqs' = ContextFaqs(top_faqs)
    /\ context' = with_faqs
    /\ IF messages_ref = "response"
       THEN /\ response_list' = InsertBeforeLast(response_list, SystemTurn(with_faqs))
            /\ UNCHANGED payload_list
       ELSE /\ payload_list' = InsertBeforeLast(payload_list, SystemTurn(with_faqs))
            /\ UNCHANGED response_list
    /\ pc' = "generate"
    /\ UNCHANGED <<inputVars, messages_ref, classifyVars, coarseVars, qa_results,
                   qa_candidates, qa_passages, reranked_qa_results, top_faqs,
                   streamVars, output, calls, exception>>

\* Lines 275-294: the context is rendered and the system message is
\* inserted into the list `messages` names, in place.
Assemble ==
    /\ pc = "assemble"
    /\ context_faqs' = ContextFaqs(top_faqs)
    /\ context' = Context(top_sections)
    /\ IF messages_ref = "response"
       THEN /\ response_list' = InsertBeforeLast(response_list, SystemTurn(Context(top_sections)))
            /\ UNCHANGED payload_list
       ELSE /\ payload_list' = InsertBeforeLast(payload_list, SystemTurn(Context(top_sections)))
            /\ UNCHANGED response_list
    /\ pc' = "generate"
    /\ UNCHANGED <<inputVars, messages_ref, classifyVars, coarseVars, qa_results,
                   qa_candidates, qa_passages, reranked_qa_results, top_faqs,
                   streamVars, output, calls, exception>>

\* Lines 300-328: model_payload is built around `messages` and posted.  A
\* request that got no response leaves no response object; a response with
\* an error status is closed by the with block as raise_for_status() leaves
\* it.  The
\* locals of the routing, search and re-rank steps are not read from here
\* on; of them only top_sections, section_names and context are tracked
\* further.
OpenGeneration ==
    /\ pc \in {"decide", "generate"}
    /\ pc = "decide" => ~database_required
    /\ calls' = Append(calls, Call("generation", ""))
    /\ generation_request' = [sent |-> TRUE, messages |-> Messages]
    /\ self_query_data' = NoResponse
    /\ assistant_reply' = <<>>
    /\ full_hr_candidates' = <<>>
    /\ qa_results' = <<>>
    /\ qa_candidates' = <<>>
    /\ qa_passages' = <<>>
    /\ reranked_qa_results' = <<>>
    /\ top_faqs' = <<>>
    /\ context_faqs' = <<>>
    /\ \/ Caught(Exc("ConnectionError", <<"connection failed">>)) /\ UNCHANGED transport
       \/ Caught(Exc("HTTPError", <<"500 Server Error">>)) /\ transport' = "closed"
       \/ pc' = "streaming" /\ transport' = "open" /\ UNCHANGED output
    /\ UNCHANGED <<inputVars, heapVars, match, database_required, top_sections,
                   section_names, context, lines, exception>>

\* Lines 329-355: one line of iter_lines().
StreamLine ==
    /\ pc = "streaming"
    /\ Len(lines) < MaxLines
    /\ \E line \in StreamLines :
         /\ lines' = Append(lines, line)
         /\ CASE ProcessLine(line).does = "yield" ->
                    /\ output' = Append(output, ProcessLine(line).chunk)
                    /\ UNCHANGED <<pc, transport>>
              [] ProcessLine(line).does = "skip" -> UNCHANGED <<pc, output, transport>>
              [] ProcessLine(line).does = "raise" ->
                    Caught(ProcessLine(line).exc) /\ transport' = "closed"
    /\ UNCHANGED <<inputVars, heapVars, classifyVars, coarseVars, faqVars,
                   context, generation_request, calls, exception>>

\* An end of the body with nothing relayed yet, taken as a reason to read
\* the stream anew.
StreamEndReconnects ==
    /\ pc = "streaming"
    /\ lines # <<>>
    /\ output = <<>>
    /\ lines' = <<>>
    /\ UNCHANGED <<pc, inputVars, heapVars, classifyVars, coarseVars, faqVars,
                   context, generation_request, transport, output, calls, exception>>

\* iter_lines() is exhausted: the with block closes the response and both
\* generators return.
StreamEnd ==
    /\ pc = "streaming"
    /\ pc' = "done"
    /\ transport' = "closed"
    /\ UNCHANGED <<inputVars, heapVars, classifyVars, coarseVars, faqVars,
                   context, generation_request, lines, output, calls, exception>>

\* iter_lines() raises: the transport broke while the body was read.
StreamFail ==
    /\ pc = "streaming"
    /\ Caught(Exc("ChunkedEncodingError", <<"Connection broken">>))
    /\ transport' = "closed"
    /\ UNCHANGED <<inputVars, heapVars, classifyVars, coarseVars, faqVars,
                   context, generation_request, lines, calls, exception>>

\* A close that the handler of line 361 would catch, had it been written
\* for BaseException: the cancellation is reported as an error.
ConsumerCloseCaught ==
    /\ pc = "streaming"
    /\ lines # <<>>
    /\ ProcessLine(Last(lines)).does = "yield"
    /\ output' = Append(output, ErrorChunk(Exc("GeneratorExit", <<>>)))
    /\ pc' = "closed"
    /\ transport' = "closed"
    /\ UNCHANGED <<inputVars, heapVars, classifyVars, coarseVars, faqVars,
                   context, generation_request, lines, calls, exception>>

\* The consumer closes the generator while it is suspended at the yield of
\* line 359: GeneratorExit is raised there, the with block of line 326
\* closes the response, and the handler of line 361 (Exception) does not
\* catch it.
ConsumerClose ==
    /\ pc = "streaming"
    /\ lines # <<>>
    /\ ProcessLine(Last(lines)).does = "yield"
    /\ pc' = "closed"
    /\ transport' = "closed"
    /\ UNCHANGED <<inputVars, heapVars, classifyVars, coarseVars, faqVars,
                   context, generation_request, lines, output, calls, exception>>

Next ==
    \/ Start
    \/ SelfQuery
    \/ CoarseSearch
    \/ ScopedQuery
    \/ Rerank
    \/ Assemble
    \/ OpenGeneration
    \/ StreamLine
    \/ StreamEnd
    \/ StreamFail
    \/ ConsumerClose

Spec == Init /\ [][Next]_vars

\* generate_stream is sequential code that the consumer drives with next():
\* as long as a step is possible one is taken, each external call returning
\* or failing and the transport ending after finitely many lines.
LiveSpec == Init /\ [][Next]_vars /\ WF_vars(Next)

\* ================================================================ claims
IsErrorChunk(c) ==
    /\ Len(c) >= 3
    /\ c[1] = "{\"error\": \""
    /\ c[2] = "Error in generating response: "
    /\ Last(c) = "\"}"
ErrorPositions(out) == {i \in 1..Len(out) : IsErrorChunk(out[i])}
InputConversation == payload.messages.items
NonEmptyListGiven == payload.messages.kind = "list" /\ payload.messages.items # <<>>
Called(to) == \E i \in 1..Len(calls) : calls[i].to = to

\* C1: for every payload whose `messages` is a non-empty list, whatever its
\* elements are, no exception leaves generate_stream; a failure shows as one
\* error chunk, which is the last item of the output.  (Stated here for the
\* payloads whose `options` is a dict or absent.)
C1_NoExceptionEscapes ==
    (NonEmptyListGiven /\ payload.options = "dict") =>
        /\ pc # "raised"
        /\ Cardinality(ErrorPositions(output)) <= 1
        /\ \A i \in ErrorPositions(output) : i = Len(output) /\ pc = "done"

\* C2: a missing, non-list or empty `messages` raises ValueError before any
\* chunk and any external call, and nothing else keeps the pipeline from
\* starting.  (Stated here for the payloads whose `options` is a dict or
\* absent.)
C2_OnlyInvalidMessagesStopTheStart ==
    payload.options = "dict" =>
        /\ (~NonEmptyListGiven /\ pc # "init") =>
               /\ pc = "raised"
               /\ exception.type = "ValueError"
               /\ output = <<>>
               /\ calls = <<>>
        /\ pc = "raised" => ~NonEmptyListGiven

\* C3: when the routing decision is required = false, the conversation
\* posted to the generation backend is the input conversation, whichever
\* envelope shape the classifier answered with.
C3_UntouchedWhenNotRequired ==
    (generation_request.sent /\ ~database_required) =>
        generation_request.messages = InputConversation

\* C4: when the routing decision is required = true and retrieval and
\* re-ranking succeeded, the conversation posted to the generation backend
\* is the input conversation with one system turn inserted before its last
\* turn, whichever envelope shape the classifier answered with.
C4_OneSystemTurnBeforeLast ==
    (generation_request.sent /\ database_required) =>
        LET sent == generation_request.messages
            n == Len(InputConversation)
        IN /\ Len(sent) = n + 1
           /\ SubSeq(sent, 1, n - 1) = SubSeq(InputConversation, 1, n - 1)
           /\ sent[n].role = "system"
           /\ sent[n + 1] = InputConversation[n]

\* An occurrence of the pattern at token i: the literal, k whitespace
\* tokens, then the word w, all compared without regard to case.
OccursAt(s, i, w) ==
    \E k \in 0..Len(s) :
        /\ i + k + 1 <= Len(s)
        /\ Lower(s[i]) = "database required:"
        /\ \A j \in 1..k : s[i + j] = " "
        /\ Lower(s[i + k + 1]) = w
Occurrences(s) == {i \in 1..Len(s) : OccursAt(s, i, "yes") \/ OccursAt(s, i, "no")}
FirstOccurrence(s) == CHOOSE i \in Occurrences(s) : \A j \in Occurrences(s) : i <= j

\* C5: a reply without an occurrence of the pattern gives required = false;
\* otherwise required is true exactly when the word of the first occurrence
\* is 'yes' in any casing.  An unparseable verdict makes no index or ranker
\* call and yields no error chunk: the next call is the generation call.
C5_VerdictParsing ==
    /\ pc = "decide" =>
          /\ (match = NoMatch) = (Occurrences(assistant_reply) = {})
          /\ database_required =
                (/\ Occurrences(assistant_reply) # {}
                 /\ OccursAt(assistant_reply, FirstOccurrence(assistant_reply), "yes"))
          /\ output = <<>>
    /\ (match = NoMatch /\ (pc = "decide" \/ generation_request.sent)) =>
          /\ ~database_required
          /\ ~Called("coarse") /\ ~Called("faq") /\ ~Called("rerank")
          /\ pc = "decide" => ENABLED OpenGeneration

\* C5 witness: a reply with two occurrences, 'Yes' first and 'No' second.
C5_Witness ==
    /\ pc = "decide"
    /\ database_required
    /\ Cardinality(Occurrences(assistant_reply)) = 2
    /\ \E i \in Occurrences(assistant_reply) : OccursAt(assistant_reply, i, "no")

\* The lines C6 speaks of: text that is not JSON, and envelopes
\* {message: {role, content}} with a text content.
ClaimedLine(l) ==
    l.kind = "text" \/ (l.kind = "envelope" /\ l.content # NoneValue)
RECURSIVE ExpectedChunks(_)
ExpectedChunks(ls) ==
    IF ls = <<>> THEN <<>>
    ELSE (IF ls[1].kind = "text" \/ ls[1].role \in {"assistant", "user"}
          THEN <<ls[1].content \o <<"\n">>>>
          ELSE <<>>) \o ExpectedChunks(Tail(ls))
TransportErrors ==
    {Exc("ConnectionError", <<"connection failed">>),
     Exc("HTTPError", <<"500 Server Error">>),
     Exc("ChunkedEncodingError", <<"Connection broken">>)}

\* C6: for lines that are each non-JSON text or an envelope
\* {message: {role, content}}, the chunks relayed are, in the order of the
\* lines, content + "\n" for the roles assistant and user, line + "\n" for
\* non-JSON text and nothing for other roles; only a failure of the
\* transport adds anything (its error chunk, at the end).
C6_RelayedChunks ==
    (generation_request.sent /\ \A i \in 1..Len(lines) : ClaimedLine(lines[i])) =>
        \/ output = ExpectedChunks(lines)
        \/ /\ pc = "done"
           /\ \E e \in TransportErrors :
                 output = Append(ExpectedChunks(lines), ErrorChunk(e))

\* C6 witness: the lines [system, non-JSON] gave the one chunk of the
\* second line, and the stream then ended.
C6_Witness ==
    /\ pc = "done"
    /\ lines = <<Line("envelope", "system", <<"Hi">>),
                 Line("text", "", <<"not json">>)>>
    /\ output = << <<"not json", "\n">> >>

\* The step in which the generation call is made and does not open a stream.
OpenFailed ==
    /\ pc \in {"decide", "generate"}
    /\ generation_request'.sent
    /\ pc' # "streaming"
\* The step in which an opened stream ends with something added to the
\* output although no line was delivered.
ReadFailed ==
    /\ pc = "streaming"
    /\ pc' = "done"
    /\ lines' = lines
    /\ output' # output

\* What a step does when the generation call fails, and that no step
\* follows the end of the output.
FailureStep ==
    /\ OpenFailed =>
          /\ pc' = "done"
          /\ \E e \in TransportErrors : output' = <<ErrorChunk(e)>>
    /\ ReadFailed =>
          \E e \in TransportErrors : output' = Append(output, ErrorChunk(e))
    /\ pc # "done"

C8_EmptyCandidatesSkipTheScorer ==
    (pc \in {"assemble", "generate"} /\ qa_candidates = <<>>) =>
        /\ reranked_qa_results = <<>>
        /\ ~Called("rerank")

IsFaqCall(c) == c.to = "faq"
FaqFilters ==
    LET f == SelectSeq(calls, IsFaqCall) IN [i \in 1..Len(f) |-> f[i].filter]
ExpectedSections ==
    [i \in 1..Min(2, Len(full_hr_candidates)) |-> full_hr_candidates[i].section_name]
RECURSIVE Flatten(_)
Flatten(ss) == IF ss = <<>> THEN <<>> ELSE ss[1] \o Flatten(Tail(ss))

\* C9: the filtered FAQ queries are issued one per position of the first
\* two coarse results, in their order (a repeated section twice); when the
\* ranker is called there have been min(2, n) of them, and the passages it
\* is handed are the queries' results concatenated in that order, none
\* dropped.
C9_ScopedQueriesInCoarseOrder ==
    /\ ~generation_request.sent =>
          /\ Len(FaqFilters) <= Len(ExpectedSections)
          /\ FaqFilters = SubSeq(ExpectedSections, 1, Len(FaqFilters))
          /\ Called("rerank") => Len(FaqFilters) = Min(2, Len(full_hr_candidates))
    /\ pc \in {"scoped", "assemble", "generate"} =>
          /\ Len(qa_results) = Len(FaqFilters)
          /\ qa_candidates = Flatten(qa_results)
    /\ pc \in {"assemble", "generate"} =>
          /\ Len(qa_passages) = Len(Flatten(qa_results))
          /\ \A i \in 1..Len(qa_passages) :
                /\ qa_passages[i].text = Flatten(qa_results)[i].page_content
                /\ qa_passages[i].id = Flatten(qa_results)[i].ids

\* C9 witness: the two top results share section A; it was queried twice
\* and the ranker was handed the four candidates.
C9_Witness ==
    /\ pc = "assemble"
    /\ FaqFilters = <<"A", "A">>
    /\ Len(full_hr_candidates) = 3
    /\ Len(qa_passages) = 4

\* The classifier call failed: the transport, the status, the body, or an
\* envelope with neither field or with a malformed one.
ClassifierFailed(resp) ==
    \/ resp.status # "ok"
    \/ ~resp.has_message /\ ~resp.has_messages
    \/ resp.has_message /\ (~resp.message.dict \/ resp.message.content = NoneValue)
    \/ /\ ~resp.has_message
       /\ resp.has_messages
       /\ \/ resp.messages.kind # "list"
          \/ resp.messages.items = <<>>
          \/ ~Last(resp.messages.items).dict
          \/ Last(resp.messages.items).content = NoneValue

ParsesAsJson(l) ==
    l.kind \in {"envelope", "json_without_message", "json_message_not_object",
                "json_not_object"}
DroppedJson(l) == ParsesAsJson(l) /\ ~(l.kind = "envelope" /\ l.role \in {"assistant", "user"})

\* C11: in an opened generation stream a JSON line without message.role in
\* {assistant, user} adds neither a chunk nor an error to the output and
\* does not end the stream: once it is the last line read, the output holds
\* at most one chunk per earlier line and no error chunk but that of a
\* transport failure.
C11_DroppedJsonLinesKeepTheStream ==
    (generation_request.sent /\ lines # <<>> /\ DroppedJson(Last(lines))) =>
        /\ \A i \in ErrorPositions(output) :
              \E e \in TransportErrors : output[i] = ErrorChunk(e)
        /\ Len(output) - Cardinality(ErrorPositions(output)) <= Len(lines) - 1

\* The place of a collaborator in the chain the claim fixes.
Rank(to) ==
    CASE to = "classifier" -> 1
      [] to = "coarse" -> 2
      [] to = "faq" -> 3
      [] to = "rerank" -> 4
      [] to = "generation" -> 5
CallCount(to) == Cardinality({i \in 1..Len(calls) : calls[i].to = to})
ValidInput == Preamble(payload) = NoExc

\* The calls made so far are in chain order, within the claimed numbers.
CallsInChainOrder ==
    /\ \A i, j \in 1..Len(calls) : i < j => Rank(calls[i].to) <= Rank(calls[j].to)
    /\ CallCount("classifier") = (IF pc \in {"init", "self_query"} THEN 0 ELSE 1)
    /\ CallCount("coarse") <= 1
    /\ CallCount("faq") <= 2
    /\ CallCount("rerank") <= 1
    /\ CallCount("generation") <= 1
    /\ calls # <<>> => calls[1].to = "classifier"
    /\ (Called("coarse") \/ Called("faq") \/ Called("rerank")) => database_required
    /\ Called("faq") => Called("coarse")
    /\ Called("rerank") => Called("coarse")

\* Once the classifier has returned, no step changes the decision.
DecisionKept == pc \notin {"init", "self_query"} => database_required' = database_required

\* C12: with valid input the calls are made in the order classifier, coarse
\* search, scoped searches, re-rank, generation, none of them repeated: the
\* classifier exactly once, coarse search and re-rank at most once and only
\* when required, scoped search at most twice, generation at most once and
\* after the classifier call; the decision is not changed after it is made.
C12_CallsInFixedOrder ==
    [](ValidInput => CallsInChainOrder) /\ [][DecisionKept]_vars

\* C12 witness: the whole chain was called, with two scoped searches.
C12_Witness ==
    /\ pc = "streaming"
    /\ calls = <<Call("classifier", ""), Call("coarse", ""), Call("faq", "A"),
                 Call("faq", "B"), Call("rerank", ""), Call("generation", "")>>

\* A step that calls the primary index, the FAQ index or the ranker and
\* gets no result from it.
RetrievalCallFailed ==
    /\ calls' # calls
    /\ \/ Last(calls').to = "coarse" /\ pc' # "scoped"
       \/ Last(calls').to = "faq" /\ qa_results' = qa_results
       \/ Last(calls').to = "rerank" /\ pc' # "assemble"
NoSystemTurn(l) == \A i \in 1..Len(l) : l[i].role # "system"
RetrievalFailureStep ==
    /\ RetrievalCallFailed =>
          /\ pc' = "done"
          /\ Len(output') = 1
          /\ IsErrorChunk(output'[1])
          /\ ~generation_request'.sent
          /\ ~(\E i \in 1..Len(calls') : calls'[i].to = "generation")
          /\ payload_list' = InputConversation
          /\ NoSystemTurn(response_list')
          /\ context' = <<>>
    /\ pc # "done"

\* C13: when the coarse search, a scoped search or the re-rank call fails,
\* the step ends the run with exactly one error chunk as the output, no
\* system turn in either conversation list and no generation call, and no
\* step follows the end of the run.
C13_RetrievalFailureAborts == [][RetrievalFailureStep]_vars

\* C13 witness: the second scoped search failed.
C13_Witness ==
    /\ pc = "done"
    /\ calls = <<Call("classifier", ""), Call("coarse", ""), Call("faq", "A"),
                 Call("faq", "B")>>
    /\ Len(output) = 1

\* The block the claim describes, written out from the coarse result: the
\* heading, the text of its first two entries in rank order, and no more.
SectionsBlock(full) ==
    CASE Len(full) = 0 -> <<"Sections:\n", "\n">>
      [] Len(full) = 1 -> <<"Sections:\n">> \o full[1].page_content \o <<"\n">>
      [] Len(full) >= 2 ->
            <<"Sections:\n">> \o full[1].page_content \o <<"\n\n">>
                \o full[2].page_content \o <<"\n">>
ExpectedSystemTurn(full) ==
    [dict |-> TRUE,
     role |-> "system",
     content |->
        <<"Using the provided context from the database for Tech Enerzal to answer the user query.\nContext=\"">>
        \o SectionsBlock(full) \o <<"\"">>]

\* What each step after the classifier does to the conversation: the
\* searches and the ranker leave it as it is, the insert adds the turn of
\* the coarse result before its last turn, and the generation call posts it
\* as it stands.
ConversationStep ==
    /\ pc \in {"decide", "scoped"} => UNCHANGED heapVars
    /\ pc = "assemble" =>
          /\ messages_ref' = messages_ref
          /\ Messages # <<>>
          /\ Messages' = Front(Messages) \o <<ExpectedSystemTurn(full_hr_candidates)>>
                            \o <<Last(Messages)>>
    /\ (pc \in {"decide", "generate"} /\ generation_request'.sent) =>
          /\ UNCHANGED heapVars
          /\ generation_request'.messages = Messages

\* C14: the conversation posted to the generation backend is the one the
\* classifier step left, with one system turn added that is a function of
\* the first two coarse results alone: the results of the FAQ index and of
\* the ranker change nothing in it, and the turn carries the 'Sections:'
\* block of the two coarse texts in rank order and no FAQ text.
C14_ContextFromCoarseResultsOnly == [][ConversationStep]_vars

\* C14 witness: three FAQs were ranked, and the conversation about to be
\* posted carries the block of the first two of three coarse results.
C14_Witness ==
    /\ pc = "generate"
    /\ Len(top_faqs) = 3
    /\ full_hr_candidates = <<Doc("B", <<"tB">>), Doc("A", <<"tA">>), Doc("A", <<"tA">>)>>
    /\ context = <<"Sections:\n", "tB", "\n\n", "tA", "\n">>
    /\ Messages[Len(Messages) - 1] = SystemTurn(context)

\* The coarse search returned, with no result.
CoarseReturnedNothing ==
    /\ Called("coarse")
    /\ top_sections = <<>>
    /\ pc = "scoped" \/ Called("rerank")
SystemTurnsOf(l) == {i \in 1..Len(l) : l[i].role = "system"}

\* C15: after a coarse search that returned no result, no scoped query is
\* issued, the run does not end before the generation call is made, and
\* the conversation posted carries exactly one system turn, whose
\* 'Sections:' block is empty.
C15_EmptyCoarseResultProceeds ==
    CoarseReturnedNothing =>
        /\ ~Called("faq")
        /\ pc = "done" => generation_request.sent
        /\ generation_request.sent =>
              /\ Cardinality(SystemTurnsOf(generation_request.messages)) = 1
              /\ \A i \in SystemTurnsOf(generation_request.messages) :
                    generation_request.messages[i] = ExpectedSystemTurn(<<>>)

\* The step in which the consumer closes the stream: the generator is
\* suspended at a yield of the open stream before it and finished after it.
CloseStep == pc = "streaming" /\ pc' = "closed"
CancellationStep ==
    /\ CloseStep =>
          /\ transport = "open"
          /\ transport' = "closed"
          /\ lines' = lines
          /\ output' = output
          /\ calls' = calls
    /\ pc # "closed"

\* C16: when the consumer closes the stream after a chunk, the transport is
\* closed in that step with no further line read and nothing added to the
\* output, and no step follows: the closed stream reads no line, yields no
\* chunk and makes no call.
C16_EarlyCloseEndsTheStream ==
    [](pc = "closed" => (transport = "closed" /\ ErrorPositions(output) = {}))
    /\ [][CancellationStep]_vars

\* C16 witness: the consumer closed the stream after the first of its
\* chunks, with the transport still able to deliver lines.
C16_Witness ==
    /\ pc = "closed"
    /\ Len(lines) = 1
    /\ Len(output) = 1
    /\ transport = "closed"

OutputEnded == pc \in {"done", "closed"}

\* C17: a run on valid input reaches the end of its output, and an output
\* that has ended holds at most one error chunk, as its last chunk.
C17_OutputEnds ==
    /\ ValidInput => <>OutputEnded
    /\ [](OutputEnded => ErrorPositions(output) \subseteq {Len(output)})

\* C17 witness: the transport delivered its lines and closed, and the
\* output ended after the chunk of the last line.
C17_Witness ==
    /\ pc = "done"
    /\ Len(lines) = MaxLines
    /\ transport = "closed"
    /\ ErrorPositions(output) = {}
    /\ Len(output) = MaxLines

\* C18: when generate_stream has run to its end, the list the caller passed
\* as payload['messages'] holds the turns it held before the call.
C18_PayloadLeftAsPassed ==
    pc \in {"done", "closed"} => payload_list = InputConversation

\* C19: for a non-empty conversation whose last turn does not have role
\* user, no classifier, index, ranker or generation call is made.
C19_LastTurnMustBeUser ==
    (NonEmptyListGiven /\ Last(InputConversation).role # "user") => calls = <<>>

WithoutEmpty(ls) == SelectSeq(ls, LAMBDA l : l.kind # "empty")
HasEmptyLine == \E i \in 1..Len(lines) : lines[i].kind = "empty"
EmptyLineStep ==
    (lines' # lines /\ Last(lines').kind = "empty") =>
        (output' = output /\ pc' = "streaming" /\ transport' = "open")

\* C20: an empty line of the generation stream adds no chunk to the output
\* and leaves the stream open; the other lines give the chunks they give
\* without it.
C20_EmptyLinesAreSkipped ==
    /\ [][EmptyLineStep]_vars
    /\ []((/\ generation_request.sent
           /\ HasEmptyLine
           /\ \A i \in 1..Len(lines) : ClaimedLine(lines[i]) \/ lines[i].kind = "empty") =>
             \/ output = ExpectedChunks(WithoutEmpty(lines))
             \/ /\ pc = "done"
                /\ \E e \in TransportErrors :
                      output = Append(ExpectedChunks(WithoutEmpty(lines)), ErrorChunk(e)))

\* C20 witness: an empty line came first and the line after it was relayed.
C20_Witness ==
    /\ lines = <<Line("empty", "", <<>>), Line("envelope", "assistant", <<"Hi">>)>>
    /\ output = <<<<"Hi", "\n">>>>
    /\ pc = "done"
====
